---- MODULE Spec2Model ----
(***************************************************************************)
(* Bounded single-producer single-consumer queue of go-spscqueue.          *)
(*                                                                         *)
(* One producer goroutine, one consumer goroutine and one goroutine that   *)
(* calls Len.  A step of a goroutine holds exactly one access to memory    *)
(* that another goroutine touches (an index, a slot, the int behind a      *)
(* handle), together with the goroutine-private computation around it;     *)
(* sync/atomic loads and stores are sequentially consistent in Go.         *)
(*                                                                         *)
(* Two client programs, as in spscqueue_test.go:                           *)
(*   - a queue of int (filled = FALSE): the producer passes the values     *)
(*     1, 2, 3, ... to Push/Offer, and may Reserve/Commit;                 *)
(*   - a queue of *int prepared with Fill (filled = TRUE): the slots hold  *)
(*     handles, the producer writes through the handle Reserve returned    *)
(*     and Commits, the consumer dereferences the handle it dequeued.      *)
(***************************************************************************)
EXTENDS Integers, Sequences, FiniteSets

\* Largest capacity handed to New.
MaxCap == 2
\* Number of elements the producer enqueues in a run.
MaxItems == 3

VARIABLES
    cap,          \* the `size` argument of New
    items,        \* q.items, indexed 0 .. cap
    rIdx,         \* q.rIdx
    wIdxCached,   \* q.wIdxCached
    wIdx,         \* q.wIdx
    rIdxCached,   \* q.rIdxCached
    filled,       \* Fill has run: the slots hold handles
    heap,         \* the int each handle points to
    started,      \* some queue operation has been called
    ppc,          \* producer: position in its current operation
    wIdxNext,     \* producer: the local wIdxNext
    el,           \* producer: the argument el of Push/Offer
    pOp,          \* producer: operation that returned last
    pOk,          \* producer: boolean result of the last Offer/Reserve
    pRet,         \* producer: element returned by the last Reserve
    pSlot,        \* producer: index of the slot the last Reserve returned
    reserved,     \* producer: a Reserve succeeded and nothing was published since
    written,      \* producer: value written through the reserved handle (0: none)
    cpc,          \* consumer: position in its current operation
    cOp,          \* consumer: operation that returned last
    cOk,          \* consumer: boolean result of the last Front
    cRet,         \* consumer: element returned by the last Pop/Front
    canAdvance,   \* consumer: a Front succeeded and Advance has not been called since
    cDeref,       \* consumer: holds a handle it has yet to dereference
    lpc,          \* Len caller: position
    lrIdx,        \* Len caller: the local rIdx
    lRet,         \* Len caller: value returned
    lSeen,        \* Len caller: element counts the queue held between the two loads
    lMoved,       \* Len caller: goroutines that published an index between the two loads
    enq,          \* history: values published by the producer, in order
    deq,          \* history: values obtained by the consumer, in order
    nDeq          \* history: number of elements removed (read index publications)

qvars == <<cap, items, rIdx, wIdxCached, wIdx, rIdxCached, filled, heap, started>>
pvars == <<ppc, wIdxNext, el, pOp, pOk, pRet, pSlot, reserved, written>>
cvars == <<cpc, cOp, cOk, cRet, canAdvance, cDeref>>
lvars == <<lpc, lrIdx, lRet, lSeen, lMoved>>
hvars == <<enq, deq, nDeq>>
vars == <<qvars, pvars, cvars, lvars, hvars>>

----------------------------------------------------------------------------
\* len(q.items)
NItems == Cardinality(DOMAIN items)

\* Mutant: New allocates one slot too many.
New_ExtraSlot(size) == [i \in 0 .. size + 1 |-> 0]

\* The slots New allocates: size+1 zero values.
New(size) == [i \in 0 .. size |-> 0]

\* Mutant: the index wraps one slot early, at the capacity.
NextIdx_WrapEarly(idx) == IF idx + 1 >= cap THEN 0 ELSE idx + 1

\* idx + 1, wrapped to 0 at len(q.items).
NextIdx(idx) == IF idx + 1 = NItems THEN 0 ELSE idx + 1

\* Mutant: Len without the `wIdx == rIdx` case.
LenOp_NoEqual(r, w) ==
    IF w > r THEN w - r
    ELSE NItems - (r - w)

\* Mutant: Len takes the distance of the indices without wrapping.
LenOp_NoWrap(r, w) ==
    IF w = r THEN 0
    ELSE IF w > r THEN w - r
    ELSE r - w

\* Mutant: Len wraps at the capacity instead of len(q.items).
LenOp_CapWrap(r, w) ==
    IF w = r THEN 0
    ELSE IF w > r THEN w - r
    ELSE cap - (r - w)

\* The value Len computes from its two loads.
LenOp(r, w) ==
    IF w = r THEN 0
    ELSE IF w > r THEN w - r
    ELSE NItems - (r - w)

\* Number of elements in the queue: publications of wIdx minus those of rIdx.
Count == Len(enq) - nDeq

\* The int an element stands for: itself, or what the handle points to.
Val(e) == IF filled THEN heap[e] ELSE e

\* Counts seen by a Len call between its two loads, after the count became c.
Seen(c) == IF lpc = "len_w" THEN lSeen \cup {c} ELSE lSeen

\* Goroutines that published between the two loads of a Len call, after g did.
Moved(g) == IF lpc = "len_w" THEN lMoved \cup {g} ELSE lMoved

Init ==
    /\ cap \in 0 .. MaxCap
    /\ items = New(cap)
    /\ rIdx = 0 /\ wIdxCached = 0 /\ wIdx = 0 /\ rIdxCached = 0
    /\ filled = FALSE
    /\ heap = [h \in 0 .. NItems |-> 0]
    /\ started = FALSE
    /\ ppc = "idle" /\ wIdxNext = 0 /\ el = 0 /\ pOp = "none" /\ pOk = FALSE
    /\ pRet = 0 /\ pSlot = 0 /\ reserved = FALSE /\ written = 0
    /\ cpc = "idle" /\ cOp = "none" /\ cOk = FALSE /\ cRet = 0
    /\ canAdvance = FALSE /\ cDeref = FALSE
    /\ lpc = "idle" /\ lrIdx = 0 /\ lRet = 0 /\ lSeen = {} /\ lMoved = {}
    /\ enq = <<>> /\ deq = <<>> /\ nDeq = 0

----------------------------------------------------------------------------
\* Fill, called once on the new queue before the goroutines start: one fresh
\* handle per slot (handle i+1 in slot i, each pointing to an int 0).
Fill ==
    /\ ~started /\ ~filled
    /\ items' = [i \in DOMAIN items |-> i + 1]
    /\ filled' = TRUE
    /\ UNCHANGED <<cap, rIdx, wIdxCached, wIdx, rIdxCached, heap, started>>
    /\ UNCHANGED <<pvars, cvars, lvars, hvars>>

----------------------------------------------------------------------------
\* Producer.  A call begins at "idle": the computation of wIdxNext and the test
\* of the cached index are private to the producer and belong to the step of
\* the call's first access to shared memory.

\* Mutant: the producer takes the queue to be full when the indices are equal.
RanIntoConsumer_OnEqual(next, cached) == next = NextIdx(cached)

\* `wIdxNext == q.rIdxCached`: the producer ran into the consumer.
RanIntoConsumer(next, cached) == next = cached

\* A producer call begins (the producer enqueues MaxItems elements in a run).
ProducerEnter ==
    /\ ppc = "idle"
    /\ Len(enq) < MaxItems
    /\ started' = TRUE
    /\ wIdxNext' = NextIdx(wIdx)

\* Mutant: the producer takes the read index to be one slot further.
LoadRIdx_Ahead == rIdxCached' = NextIdx(rIdx)

\* q.rIdxCached = atomic.LoadUint64(&q.rIdx)
LoadRIdx == rIdxCached' = rIdx

\* Mutant: the element is written to the slot after the write index.
WriteSlot_NextSlot(e) == items' = [items EXCEPT ![NextIdx(wIdx)] = e]

\* q.items[q.wIdx] = el
WriteSlot(e) == items' = [items EXCEPT ![wIdx] = e]

\* atomic.StoreUint64(&q.wIdx, wIdxNext): the element in slot wIdx is published.
\* v is the value the producer enqueues with it.
StoreWIdx(next, v) ==
    /\ wIdx' = next
    /\ enq' = Append(enq, v)
    /\ lSeen' = Seen(Count + 1)
    /\ lMoved' = Moved("producer")
    /\ reserved' = FALSE
    /\ written' = 0

\* Mutant: Push reloads the read index on every call.
PushCall_AlwaysLoads ==
    /\ ~filled
    /\ ProducerEnter
    /\ el' = Len(enq) + 1
    /\ LoadRIdx
    /\ IF RanIntoConsumer(NextIdx(wIdx), rIdxCached)
       THEN /\ ppc' = IF RanIntoConsumer(NextIdx(wIdx), rIdx)
                      THEN "push_spin" ELSE "push_write"
            /\ UNCHANGED items
       ELSE /\ WriteSlot(Len(enq) + 1)
            /\ ppc' = "push_store"
    /\ UNCHANGED <<cap, rIdx, wIdxCached, wIdx, filled, heap>>
    /\ UNCHANGED <<pOp, pOk, pRet, pSlot, reserved, written>>
    /\ UNCHANGED <<cvars, lvars, hvars>>

\* Push up to its first shared access: the load of rIdx when the cached index
\* shows no room, the slot write otherwise.
PushCall ==
    /\ ~filled
    /\ ProducerEnter
    /\ el' = Len(enq) + 1
    /\ IF RanIntoConsumer(NextIdx(wIdx), rIdxCached)
       THEN /\ LoadRIdx
            /\ ppc' = IF RanIntoConsumer(NextIdx(wIdx), rIdx)
                      THEN "push_spin" ELSE "push_write"
            /\ UNCHANGED items
       ELSE /\ WriteSlot(Len(enq) + 1)
            /\ ppc' = "push_store"
            /\ UNCHANGED rIdxCached
    /\ UNCHANGED <<cap, rIdx, wIdxCached, wIdx, filled, heap>>
    /\ UNCHANGED <<pOp, pOk, pRet, pSlot, reserved, written>>
    /\ UNCHANGED <<cvars, lvars, hvars>>

\* Mutant: the wait loop of Push tests the cached index without reloading it.
PushSpin_NoReload ==
    /\ ppc = "push_spin"
    /\ ppc' = IF RanIntoConsumer(wIdxNext, rIdxCached) THEN "push_spin" ELSE "push_write"
    /\ UNCHANGED <<qvars, wIdxNext, el, pOp, pOk, pRet, pSlot, reserved, written>>
    /\ UNCHANGED <<cvars, lvars, hvars>>

\* One turn of the wait loop: runtime.Gosched(), then the load.
PushSpin ==
    /\ ppc = "push_spin"
    /\ LoadRIdx
    /\ ppc' = IF RanIntoConsumer(wIdxNext, rIdx) THEN "push_spin" ELSE "push_write"
    /\ UNCHANGED <<cap, items, rIdx, wIdxCached, wIdx, filled, heap, started>>
    /\ UNCHANGED <<wIdxNext, el, pOp, pOk, pRet, pSlot, reserved, written>>
    /\ UNCHANGED <<cvars, lvars, hvars>>

PushWrite ==
    /\ ppc = "push_write"
    /\ WriteSlot(el)
    /\ ppc' = "push_store"
    /\ UNCHANGED <<cap, rIdx, wIdxCached, wIdx, rIdxCached, filled, heap, started>>
    /\ UNCHANGED <<wIdxNext, el, pOp, pOk, pRet, pSlot, reserved, written>>
    /\ UNCHANGED <<cvars, lvars, hvars>>

PushStore ==
    /\ ppc = "push_store"
    /\ StoreWIdx(wIdxNext, el)
    /\ ppc' = "idle" /\ pOp' = "Push"
    /\ UNCHANGED <<cap, items, rIdx, wIdxCached, rIdxCached, filled, heap, started>>
    /\ UNCHANGED <<wIdxNext, el, pOk, pRet, pSlot>>
    /\ UNCHANGED <<cvars, lpc, lrIdx, lRet, deq, nDeq>>

\* Mutant: Offer writes the slot before it checks for room.
OfferCall_WriteFirst ==
    /\ ~filled
    /\ ProducerEnter
    /\ el' = Len(enq) + 1
    /\ WriteSlot(Len(enq) + 1)
    /\ IF RanIntoConsumer(NextIdx(wIdx), rIdxCached)
       THEN /\ LoadRIdx
            /\ IF RanIntoConsumer(NextIdx(wIdx), rIdx)
               THEN ppc' = "idle" /\ pOp' = "Offer" /\ pOk' = FALSE
               ELSE ppc' = "offer_store" /\ UNCHANGED <<pOp, pOk>>
       ELSE /\ ppc' = "offer_store"
            /\ UNCHANGED <<rIdxCached, pOp, pOk>>
    /\ UNCHANGED <<cap, rIdx, wIdxCached, wIdx, filled, heap>>
    /\ UNCHANGED <<pRet, pSlot, reserved, written>>
    /\ UNCHANGED <<cvars, lvars, hvars>>

\* Mutant: Offer trusts the cached read index and does not reload it.
OfferCall_NoReload ==
    /\ ~filled
    /\ ProducerEnter
    /\ el' = Len(enq) + 1
    /\ IF RanIntoConsumer(NextIdx(wIdx), rIdxCached)
       THEN /\ ppc' = "idle" /\ pOp' = "Offer" /\ pOk' = FALSE
            /\ UNCHANGED items
       ELSE /\ WriteSlot(Len(enq) + 1)
            /\ ppc' = "offer_store"
            /\ UNCHANGED <<pOp, pOk>>
    /\ UNCHANGED <<cap, rIdx, wIdxCached, wIdx, rIdxCached, filled, heap>>
    /\ UNCHANGED <<pRet, pSlot, reserved, written>>
    /\ UNCHANGED <<cvars, lvars, hvars>>

\* Mutant: Offer waits for room, as Push does.
OfferCall_Waits ==
    /\ ~filled
    /\ ProducerEnter
    /\ el' = Len(enq) + 1
    /\ IF RanIntoConsumer(NextIdx(wIdx), rIdxCached)
       THEN /\ LoadRIdx
            /\ ppc' = IF RanIntoConsumer(NextIdx(wIdx), rIdx)
                      THEN "push_spin" ELSE "offer_write"
            /\ UNCHANGED items
       ELSE /\ WriteSlot(Len(enq) + 1)
            /\ ppc' = "offer_store"
            /\ UNCHANGED rIdxCached
    /\ UNCHANGED <<cap, rIdx, wIdxCached, wIdx, filled, heap>>
    /\ UNCHANGED <<pOp, pOk, pRet, pSlot, reserved, written>>
    /\ UNCHANGED <<cvars, lvars, hvars>>

\* Offer up to its first shared access; `return false` when the reloaded index
\* still equals wIdxNext.
OfferCall ==
    /\ ~filled
    /\ ProducerEnter
    /\ el' = Len(enq) + 1
    /\ IF RanIntoConsumer(NextIdx(wIdx), rIdxCached)
       THEN /\ LoadRIdx
            /\ IF RanIntoConsumer(NextIdx(wIdx), rIdx)
               THEN ppc' = "idle" /\ pOp' = "Offer" /\ pOk' = FALSE
               ELSE ppc' = "offer_write" /\ UNCHANGED <<pOp, pOk>>
            /\ UNCHANGED items
       ELSE /\ WriteSlot(Len(enq) + 1)
            /\ ppc' = "offer_store"
            /\ UNCHANGED <<rIdxCached, pOp, pOk>>
    /\ UNCHANGED <<cap, rIdx, wIdxCached, wIdx, filled, heap>>
    /\ UNCHANGED <<pRet, pSlot, reserved, written>>
    /\ UNCHANGED <<cvars, lvars, hvars>>

OfferWrite ==
    /\ ppc = "offer_write"
    /\ WriteSlot(el)
    /\ ppc' = "offer_store"
    /\ UNCHANGED <<cap, rIdx, wIdxCached, wIdx, rIdxCached, filled, heap, started>>
    /\ UNCHANGED <<wIdxNext, el, pOp, pOk, pRet, pSlot, reserved, written>>
    /\ UNCHANGED <<cvars, lvars, hvars>>

\* The store of Offer and `return true`.
OfferStore ==
    /\ ppc = "offer_store"
    /\ StoreWIdx(wIdxNext, el)
    /\ ppc' = "idle" /\ pOp' = "Offer" /\ pOk' = TRUE
    /\ UNCHANGED <<cap, items, rIdx, wIdxCached, rIdxCached, filled, heap, started>>
    /\ UNCHANGED <<wIdxNext, el, pRet, pSlot>>
    /\ UNCHANGED <<cvars, lpc, lrIdx, lRet, deq, nDeq>>

\* Mutant: Reserve returns the slot after the write index.
ReserveReturn_NextSlot ==
    /\ pRet' = items[NextIdx(wIdx)] /\ pSlot' = NextIdx(wIdx)
    /\ pOk' = TRUE /\ reserved' = TRUE
    /\ ppc' = "idle" /\ pOp' = "Reserve"
    /\ UNCHANGED <<wIdx, items>>

\* return q.items[q.wIdx], true
ReserveReturn ==
    /\ pRet' = items[wIdx] /\ pSlot' = wIdx /\ pOk' = TRUE /\ reserved' = TRUE
    /\ ppc' = "idle" /\ pOp' = "Reserve"
    /\ UNCHANGED <<wIdx, items>>

\* Reserve up to its first shared access; `return ret, false` (the zero value)
\* when the reloaded index still equals wIdxNext.
ReserveCall ==
    /\ ProducerEnter
    /\ IF RanIntoConsumer(NextIdx(wIdx), rIdxCached)
       THEN /\ LoadRIdx
            /\ IF RanIntoConsumer(NextIdx(wIdx), rIdx)
               THEN /\ ppc' = "idle" /\ pOp' = "Reserve" /\ pOk' = FALSE
                    /\ pRet' = 0 /\ reserved' = FALSE
                    /\ UNCHANGED pSlot
               ELSE /\ ppc' = "reserve_read"
                    /\ UNCHANGED <<pOp, pOk, pRet, pSlot, reserved>>
            /\ UNCHANGED <<wIdx, items>>
       ELSE /\ ReserveReturn
            /\ UNCHANGED rIdxCached
    /\ UNCHANGED <<cap, rIdx, wIdxCached, filled, heap>>
    /\ UNCHANGED <<el, written>>
    /\ UNCHANGED <<cvars, lvars, hvars>>

\* The slot read of a Reserve that reloaded the read index.
ReserveRead ==
    /\ ppc = "reserve_read"
    /\ ReserveReturn
    /\ UNCHANGED <<cap, rIdx, wIdxCached, rIdxCached, filled, heap, started>>
    /\ UNCHANGED <<wIdxNext, el, written>>
    /\ UNCHANGED <<cvars, lvars, hvars>>

\* The caller's `*v = i` on the handle the last Reserve returned.
WriteReserved ==
    /\ ppc = "idle" /\ filled /\ reserved /\ written = 0
    /\ heap' = [heap EXCEPT ![pRet] = Len(enq) + 1]
    /\ written' = Len(enq) + 1
    /\ pOp' = "Write"
    /\ UNCHANGED <<cap, items, rIdx, wIdxCached, wIdx, rIdxCached, filled, started>>
    /\ UNCHANGED <<ppc, wIdxNext, el, pOk, pRet, pSlot, reserved>>
    /\ UNCHANGED <<cvars, lvars, hvars>>

\* Commit, called after a successful Reserve (and, on handles, after the write).
Commit ==
    /\ ppc = "idle" /\ reserved
    /\ filled => written # 0
    /\ Len(enq) < MaxItems
    /\ wIdxNext' = NextIdx(wIdx)
    /\ StoreWIdx(NextIdx(wIdx), IF filled THEN written ELSE pRet)
    /\ pOp' = "Commit"
    /\ UNCHANGED <<cap, items, rIdx, wIdxCached, rIdxCached, filled, heap, started>>
    /\ UNCHANGED <<ppc, el, pOk, pRet, pSlot>>
    /\ UNCHANGED <<cvars, lpc, lrIdx, lRet, deq, nDeq>>

Producer ==
    \/ PushCall \/ PushSpin \/ PushWrite \/ PushStore
    \/ OfferCall \/ OfferWrite \/ OfferStore
    \/ ReserveCall \/ ReserveRead \/ WriteReserved \/ Commit

----------------------------------------------------------------------------
\* Consumer.  As for the producer, the test of the cached index belongs to the
\* step of the call's first access to shared memory.

\* Mutant: the consumer does not test for an empty queue.
NoneAvailable_Unchecked(r, cached) == FALSE

\* `q.rIdx == q.wIdxCached`: no element is known to be available.
NoneAvailable(r, cached) == r = cached

\* A consumer call begins.  A consumer holding a handle it has not dereferenced
\* yet dereferences it before it asks for another element.
ConsumerEnter ==
    /\ cpc = "idle"
    /\ cDeref => canAdvance
    /\ started' = TRUE

\* Mutant: the consumer takes the write index to be one slot further.
LoadWIdx_Ahead == wIdxCached' = NextIdx(wIdx)

\* q.wIdxCached = atomic.LoadUint64(&q.wIdx)
LoadWIdx == wIdxCached' = wIdx

\* q.items[q.rIdx]
ReadSlot == items[rIdx]

\* The body of Advance: atomic.StoreUint64(&q.rIdx, rIdxNext); the element in
\* slot rIdx is removed.
StoreRIdx ==
    /\ rIdx' = NextIdx(rIdx)
    /\ nDeq' = nDeq + 1
    /\ lSeen' = Seen(Count - 1)
    /\ lMoved' = Moved("consumer")
    /\ canAdvance' = FALSE

\* Pop up to its first shared access: the load of wIdx when the cached index
\* shows no element, the slot read otherwise.
PopCall ==
    /\ ConsumerEnter
    /\ IF NoneAvailable(rIdx, wIdxCached)
       THEN /\ LoadWIdx
            /\ cpc' = IF NoneAvailable(rIdx, wIdx) THEN "pop_spin" ELSE "pop_read"
            /\ UNCHANGED cRet
       ELSE /\ cRet' = ReadSlot
            /\ cpc' = "pop_adv"
            /\ UNCHANGED wIdxCached
    /\ UNCHANGED <<cap, items, rIdx, wIdx, rIdxCached, filled, heap>>
    /\ UNCHANGED <<cOp, cOk, canAdvance, cDeref>>
    /\ UNCHANGED <<pvars, lvars, hvars>>

\* Mutant: the wait loop of Pop caches the slot after the write index it loads.
PopSpin_LoadsAhead ==
    /\ cpc = "pop_spin"
    /\ wIdxCached' = NextIdx(wIdx)
    /\ cpc' = IF NoneAvailable(rIdx, wIdx) THEN "pop_spin" ELSE "pop_read"
    /\ UNCHANGED <<cap, items, rIdx, wIdx, rIdxCached, filled, heap, started>>
    /\ UNCHANGED <<cOp, cOk, cRet, canAdvance, cDeref>>
    /\ UNCHANGED <<pvars, lvars, hvars>>

\* One turn of the wait loop: runtime.Gosched(), then the load.
PopSpin ==
    /\ cpc = "pop_spin"
    /\ LoadWIdx
    /\ cpc' = IF NoneAvailable(rIdx, wIdx) THEN "pop_spin" ELSE "pop_read"
    /\ UNCHANGED <<cap, items, rIdx, wIdx, rIdxCached, filled, heap, started>>
    /\ UNCHANGED <<cOp, cOk, cRet, canAdvance, cDeref>>
    /\ UNCHANGED <<pvars, lvars, hvars>>

\* Mutant: Pop clears the slot it read.
PopRead_Clears ==
    /\ cpc = "pop_read"
    /\ cRet' = ReadSlot
    /\ items' = [items EXCEPT ![rIdx] = 0]
    /\ cpc' = "pop_adv"
    /\ UNCHANGED <<cap, rIdx, wIdxCached, wIdx, rIdxCached, filled, heap, started>>
    /\ UNCHANGED <<cOp, cOk, canAdvance, cDeref>>
    /\ UNCHANGED <<pvars, lvars, hvars>>

\* ret := q.items[q.rIdx]
PopRead ==
    /\ cpc = "pop_read"
    /\ cRet' = ReadSlot
    /\ cpc' = "pop_adv"
    /\ UNCHANGED <<qvars, cOp, cOk, canAdvance, cDeref>>
    /\ UNCHANGED <<pvars, lvars, hvars>>

\* q.Advance() inside Pop, and `return ret`.  An int is obtained here; a handle
\* is obtained when the caller dereferences it.
PopAdvance ==
    /\ cpc = "pop_adv"
    /\ StoreRIdx
    /\ cpc' = "idle" /\ cOp' = "Pop"
    /\ IF filled
       THEN /\ cDeref' = (IF canAdvance THEN cDeref ELSE TRUE)
            /\ UNCHANGED deq
       ELSE /\ deq' = Append(deq, cRet)
            /\ UNCHANGED cDeref
    /\ UNCHANGED <<cap, items, wIdxCached, wIdx, rIdxCached, filled, heap, started>>
    /\ UNCHANGED <<cOk, cRet>>
    /\ UNCHANGED <<pvars, lpc, lrIdx, lRet, enq>>

\* Mutant: Front returns the element after the oldest one.
FrontReturn_NextSlot ==
    /\ cRet' = items[NextIdx(rIdx)] /\ cOk' = TRUE
    /\ cpc' = "idle" /\ cOp' = "Front"
    /\ canAdvance' = TRUE
    /\ cDeref' = (IF filled /\ ~canAdvance THEN TRUE ELSE cDeref)
    /\ UNCHANGED rIdx

\* Mutant: Front moves the read index, as Pop does.
FrontReturn_Advances ==
    /\ cRet' = ReadSlot /\ cOk' = TRUE
    /\ cpc' = "idle" /\ cOp' = "Front"
    /\ canAdvance' = TRUE
    /\ cDeref' = (IF filled /\ ~canAdvance THEN TRUE ELSE cDeref)
    /\ rIdx' = NextIdx(rIdx)

\* return q.items[q.rIdx], true
FrontReturn ==
    /\ cRet' = ReadSlot /\ cOk' = TRUE
    /\ cpc' = "idle" /\ cOp' = "Front"
    /\ canAdvance' = TRUE
    /\ cDeref' = (IF filled /\ ~canAdvance THEN TRUE ELSE cDeref)
    /\ UNCHANGED rIdx

\* Mutant: Front trusts the cached write index and does not reload it.
FrontCall_NoReload ==
    /\ ConsumerEnter
    /\ IF NoneAvailable(rIdx, wIdxCached)
       THEN /\ cpc' = "idle" /\ cOp' = "Front" /\ cOk' = FALSE /\ cRet' = 0
            /\ UNCHANGED <<canAdvance, cDeref, rIdx>>
       ELSE FrontReturn
    /\ UNCHANGED <<cap, items, wIdxCached, wIdx, rIdxCached, filled, heap>>
    /\ UNCHANGED <<pvars, lvars, hvars>>

\* Front up to its first shared access; `return t, false` (the zero value) when
\* the reloaded index still equals rIdx.
FrontCall ==
    /\ ConsumerEnter
    /\ IF NoneAvailable(rIdx, wIdxCached)
       THEN /\ LoadWIdx
            /\ IF NoneAvailable(rIdx, wIdx)
               THEN /\ cpc' = "idle" /\ cOp' = "Front" /\ cOk' = FALSE /\ cRet' = 0
               ELSE /\ cpc' = "front_read" /\ UNCHANGED <<cOp, cOk, cRet>>
            /\ UNCHANGED <<canAdvance, cDeref, rIdx>>
       ELSE /\ FrontReturn
            /\ UNCHANGED wIdxCached
    /\ UNCHANGED <<cap, items, wIdx, rIdxCached, filled, heap>>
    /\ UNCHANGED <<pvars, lvars, hvars>>

\* The slot read of a Front that reloaded the write index.
FrontRead ==
    /\ cpc = "front_read"
    /\ FrontReturn
    /\ UNCHANGED <<cap, items, wIdxCached, wIdx, rIdxCached, filled, heap, started>>
    /\ UNCHANGED <<pvars, lvars, hvars>>

\* Advance, called once after a successful Front.
Advance ==
    /\ cpc = "idle" /\ canAdvance
    /\ StoreRIdx
    /\ cOp' = "Advance"
    /\ deq' = IF filled THEN deq ELSE Append(deq, cRet)
    /\ UNCHANGED <<cap, items, wIdxCached, wIdx, rIdxCached, filled, heap, started>>
    /\ UNCHANGED <<cpc, cOk, cRet, cDeref>>
    /\ UNCHANGED <<pvars, lpc, lrIdx, lRet, enq>>

\* The caller's `*v` on the handle Pop or Front returned.
Deref ==
    /\ cpc = "idle" /\ cDeref
    /\ deq' = Append(deq, heap[cRet])
    /\ cDeref' = FALSE
    /\ cOp' = "Deref"
    /\ UNCHANGED <<qvars, pvars, lvars, enq, nDeq>>
    /\ UNCHANGED <<cpc, cOk, cRet, canAdvance>>

Consumer ==
    \/ PopCall \/ PopSpin \/ PopRead \/ PopAdvance
    \/ FrontCall \/ FrontRead \/ Advance \/ Deref

----------------------------------------------------------------------------
\* A goroutine that calls Len.

\* rIdx := atomic.LoadUint64(&q.rIdx)
LenLoadR ==
    /\ lpc = "idle"
    /\ lrIdx' = rIdx
    /\ lpc' = "len_w"
    /\ lSeen' = {Count}
    /\ lMoved' = {}
    /\ lRet' = 0
    /\ started' = TRUE
    /\ UNCHANGED <<cap, items, rIdx, wIdxCached, wIdx, rIdxCached, filled, heap>>
    /\ UNCHANGED <<pvars, cvars, hvars>>

\* Mutant: Len keeps the write index it loaded in the consumer's cached index.
LenLoadW_Caches ==
    /\ lpc = "len_w"
    /\ lRet' = LenOp(lrIdx, wIdx)
    /\ lpc' = "len_ret"
    /\ wIdxCached' = wIdx
    /\ UNCHANGED <<cap, items, rIdx, wIdx, rIdxCached, filled, heap, started>>
    /\ UNCHANGED <<lrIdx, lSeen, lMoved, pvars, cvars, hvars>>

\* wIdx := atomic.LoadUint64(&q.wIdx), and the value computed from the two.
LenLoadW ==
    /\ lpc = "len_w"
    /\ lRet' = LenOp(lrIdx, wIdx)
    /\ lpc' = "len_ret"
    /\ UNCHANGED <<qvars, lrIdx, lSeen, lMoved, pvars, cvars, hvars>>

\* The caller has used the value.
LenReturn ==
    /\ lpc = "len_ret"
    /\ lpc' = "idle" /\ lrIdx' = 0 /\ lRet' = 0 /\ lSeen' = {} /\ lMoved' = {}
    /\ UNCHANGED <<qvars, pvars, cvars, hvars>>

LenCaller == LenLoadR \/ LenLoadW \/ LenReturn

----------------------------------------------------------------------------
Next == Fill \/ Producer \/ Consumer \/ LenCaller

Spec == Init /\ [][Next]_vars

----------------------------------------------------------------------------
\* The program of TestPushPopSPSC: the producer goroutine Pushes MaxItems values,
\* the consumer goroutine Pops as many; Len may be called meanwhile.  The Go
\* scheduler runs every runnable goroutine again and again (the wait loops call
\* runtime.Gosched()), hence weak fairness of each of the two goroutines.

PushPopProducer == PushCall \/ PushSpin \/ PushWrite \/ PushStore

\* The consumer's loop calls Pop MaxItems times.
PopCallK == nDeq < MaxItems /\ PopCall

PushPopConsumer == PopCallK \/ PopSpin \/ PopRead \/ PopAdvance

PushPopNext == PushPopProducer \/ PushPopConsumer \/ LenCaller

PushPopSpec ==
    /\ Init /\ [][PushPopNext]_vars
    /\ WF_vars(PushPopProducer) /\ WF_vars(PushPopConsumer)

----------------------------------------------------------------------------
\* Properties.

\* s is a prefix of t.
IsPrefix(s, t) ==
    /\ Len(s) <= Len(t)
    /\ \A i \in 1 .. Len(s) : s[i] = t[i]

\* The values in the queue, oldest first, read from the slots between the read
\* index and the write index.
Contents ==
    [k \in 1 .. LenOp(rIdx, wIdx) |-> Val(items[(rIdx + k - 1) % NItems])]

\* C1: FIFO under concurrency.  In every reachable state the sequence of values
\* the consumer obtained (by Pop or by Front and Advance) is a prefix of the
\* sequence of values the producer enqueued (by Push, Offer or Reserve, write,
\* Commit), and it is that sequence once it is as long.
C1_Fifo ==
    /\ IsPrefix(deq, enq)
    /\ Len(deq) = Len(enq) => deq = enq

\* All MaxItems values went through a queue of capacity 1, whose indices wrapped.
C1_Witness ==
    /\ cap = 1 /\ ~filled
    /\ Len(deq) = MaxItems /\ deq = enq

\* C2: capacity bound of Len.  Every value a call to Len returns, whatever the
\* producer and the consumer did between its two loads, is in 0 .. capacity.
C2_LenInRange ==
    lpc = "len_ret" => lRet \in 0 .. cap

\* Len returned the capacity after both goroutines published between its loads.
C2_Witness ==
    /\ lpc = "len_ret" /\ cap = 2 /\ lRet = cap
    /\ lMoved = {"producer", "consumer"}

\* C3 as stated: the value a call to Len returns is a number of elements the
\* queue held at some instant between the call's two loads.
C3_LenLinearizable ==
    lpc = "len_ret" => lRet \in lSeen

\* C3 amended: the value a call to Len returns is a number of elements the queue
\* held at some instant between the call's two loads whenever at most one of
\* the producer and the consumer published an index between those loads.
C3_LenOneSided ==
    lpc = "len_ret" /\ Cardinality(lMoved) <= 1 => lRet \in lSeen

\* Len returned while the producer alone published between its loads, after the
\* indices wrapped.
C3_Witness ==
    /\ lpc = "len_ret" /\ lMoved = {"producer"}
    /\ lRet = 2 /\ wIdx < rIdx

\* C4: Offer has no partial effect on failure.  The step in which Offer returns
\* false (its whole call) leaves the slots, the write index, the read index and
\* both cached indices as they were; the step in which it returns true finds v
\* in the slot at the write index and moves the write index by one modulo
\* capacity+1.
C4_OfferEffects ==
    [][ /\ OfferCall /\ ppc' = "idle" =>
            /\ ~pOk'
            /\ UNCHANGED <<items, wIdx, rIdx, rIdxCached, wIdxCached>>
        /\ OfferStore =>
            /\ pOk'
            /\ items'[wIdx] = el
            /\ wIdx' = (wIdx + 1) % (cap + 1)
      ]_vars

\* Offer returned false on a full queue whose read index had moved.
C4_Witness ==
    /\ ppc = "idle" /\ pOp = "Offer" /\ ~pOk
    /\ cap >= 1 /\ rIdx # 0 /\ Count = cap

\* C5: emptiness/fullness consistency.  A call to Len on the new queue returns 0;
\* a call to Len made after capacity enqueues and no dequeue returns capacity;
\* an Offer called then returns false; an Offer called after capacity enqueues
\* and one dequeue does not return false.
C5_EmptyFull ==
    /\ [](lpc = "len_ret" /\ enq = <<>> /\ nDeq = 0 => lRet = 0)
    /\ [](lpc = "len_ret" /\ lSeen = {cap} /\ Len(enq) = cap /\ nDeq = 0 => lRet = cap)
    /\ [][ /\ OfferCall /\ Len(enq) = cap /\ nDeq = 0 => ppc' = "idle" /\ ~pOk'
           /\ OfferCall /\ Len(enq) = cap /\ nDeq = 1 => ppc' # "idle"
           /\ OfferStore => pOk'
         ]_vars

\* The Offer that followed capacity enqueues and one dequeue returned true.
C5_Witness ==
    /\ cap = 2 /\ Len(enq) = cap + 1 /\ nDeq = 1
    /\ ppc = "idle" /\ pOp = "Offer" /\ pOk

\* C6: exact length when quiescent.  Whenever neither the producer nor the
\* consumer is inside an operation, the value Len computes from the two indices
\* is the number of enqueues minus the number of dequeues; and a call to Len
\* during which no index was published returned that number.
C6_QuiescentLen ==
    /\ ppc = "idle" /\ cpc = "idle" => LenOp(rIdx, wIdx) = Count
    /\ lpc = "len_ret" /\ lMoved = {} => lSeen = {lRet}

\* Len returned the count of a quiescent queue whose write index had wrapped.
C6_Witness ==
    /\ ppc = "idle" /\ cpc = "idle"
    /\ lpc = "len_ret" /\ lMoved = {} /\ lRet = Count
    /\ wIdx < rIdx /\ Count >= 1

\* What a dequeue does: the element obtained is the one in the slot at the read
\* index, which is the oldest value enqueued and not yet removed; the read index
\* moves by one slot, no slot changes, Len drops by one and the rest of the
\* queue's contents stays.
DequeueEffect ==
    /\ LenOp(rIdx, wIdx) >= 1
    /\ cRet = items[rIdx]
    /\ Val(cRet) = enq[nDeq + 1]
    /\ rIdx' = NextIdx(rIdx)
    /\ items' = items
    /\ LenOp(rIdx', wIdx') = LenOp(rIdx, wIdx) - 1
    /\ Contents' = Tail(Contents)

\* C7: Front/Advance is equivalent to Pop.  From any reachable state and under
\* any producer behaviour, the removal by Advance after a successful Front and
\* the removal by Pop obtain the same value (the oldest one) and leave the read
\* index, the slots and Len in the same state.
C7_FrontAdvanceAsPop ==
    [][ /\ PopAdvance => DequeueEffect
        /\ Advance => DequeueEffect
      ]_vars

\* Every element was removed, the last one by Front and Advance.
C7_Witness ==
    /\ cOp = "Advance" /\ nDeq = MaxItems
    /\ ~filled /\ deq = enq /\ cap = 2

\* What an enqueue of v does: v is in the slot at the write index, the write
\* index moves by one slot, no slot changes, Len grows by one and v is the
\* newest value of the queue's contents.
PublishEffect(v) ==
    /\ Val(items[wIdx]) = v
    /\ wIdx' = NextIdx(wIdx)
    /\ items' = items
    /\ LenOp(rIdx', wIdx') = LenOp(rIdx, wIdx) + 1
    /\ Contents' = Append(Contents, v)

\* C8: Reserve/Commit is equivalent to Push.  Commit, after the value was
\* written into the slot a successful Reserve returned, does to the write index,
\* Len and the queue's contents what the store of Push(value) does; and every
\* value in the queue stays, until it is removed, the value enqueued at its
\* position, whichever way it was enqueued.
C8_ReserveCommitAsPush ==
    /\ [](\A k \in 1 .. Count : Contents[k] = enq[nDeq + k])
    /\ [][ /\ PushStore => PublishEffect(el)
           /\ Commit => PublishEffect(IF filled THEN written ELSE pRet)
         ]_vars

\* Every value was enqueued by Reserve, write and Commit on handles, and the
\* consumer obtained them all.
C8_Witness ==
    /\ filled /\ pOp = "Commit" /\ cap = 2
    /\ Len(deq) = MaxItems /\ deq = enq

\* C9: idempotent peek.  A successful Front leaves the read index unchanged and,
\* when it follows a successful Front with no Advance in between, returns the
\* same element; a successful Reserve leaves the write index unchanged and, when
\* it follows a successful Reserve with no Commit, Push or Offer in between,
\* returns the same slot and element.
C9_IdempotentPeek ==
    [][ /\ (FrontCall \/ FrontRead) /\ cpc' = "idle" /\ cOk' =>
            /\ rIdx' = rIdx
            /\ canAdvance => cRet' = cRet
        /\ (ReserveCall \/ ReserveRead) /\ ppc' = "idle" /\ pOk' =>
            /\ wIdx' = wIdx
            /\ reserved => pSlot' = pSlot /\ pRet' = pRet
      ]_vars

\* On handles: Front succeeded again after the consumer dereferenced the handle
\* of an earlier Front (Deref leaves its name in cOp), and Reserve succeeded
\* again after the producer wrote through the handle of an earlier Reserve
\* (WriteReserved leaves its name in pOp); the other side published meanwhile.
C9_Witness ==
    /\ filled /\ cap = 2
    /\ canAdvance /\ ~cDeref /\ cOp = "Front" /\ cpc = "idle"
    /\ reserved /\ written # 0 /\ pOp = "Reserve" /\ ppc = "idle"
    /\ Len(enq) = 2 /\ nDeq = 1

\* C10: zero capacity.  A queue built with New(0) stays empty and full: no
\* element is ever enqueued or removed, every Offer and Reserve returned false,
\* every Front returned the zero value and false, every Len returned 0, and no
\* Push or Pop returned (the producer and consumer are idle or in a wait loop).
C10_ZeroCapacity ==
    cap = 0 =>
        /\ enq = <<>> /\ nDeq = 0 /\ wIdx = 0 /\ rIdx = 0
        /\ ppc \in {"idle", "push_spin"} /\ cpc \in {"idle", "pop_spin"}
        /\ pOp \in {"none", "Offer", "Reserve"} /\ ~pOk /\ ~reserved
        /\ cOp \in {"none", "Front"} /\ ~cOk /\ cRet = 0 /\ ~canAdvance
        /\ lpc = "len_ret" => lRet = 0

\* On New(0): Reserve returned false and Push waits, Front returned false and
\* Pop waits, Len returned.
C10_Witness ==
    /\ cap = 0
    /\ pOp = "Reserve" /\ ppc = "push_spin"
    /\ cOp = "Front" /\ cpc = "pop_spin"
    /\ lpc = "len_ret"

\* The slots of the elements enqueued and not yet removed.
Unconsumed == {(rIdx + j) % NItems : j \in 0 .. Count - 1}

\* The slots the producer has in hand: the slot its next step stores into, the
\* slot it stored into and has not published, the slot of a Reserve it has not
\* committed.
ProducerSlots ==
    (IF \/ ppc \in {"push_write", "offer_write", "push_store", "offer_store"}
        \/ ppc = "idle" /\ ~RanIntoConsumer(NextIdx(wIdx), rIdxCached)
     THEN {wIdx} ELSE {})
    \cup (IF reserved THEN {pSlot} ELSE {})

\* The slot the consumer's next step loads.
ConsumerSlots ==
    IF \/ cpc \in {"pop_read", "front_read"}
       \/ cpc = "idle" /\ ~NoneAvailable(rIdx, wIdxCached)
    THEN {rIdx} ELSE {}

\* C11: slot exclusivity.  In every reachable state no slot is both in the
\* producer's hands (being stored into by Push/Offer, or reserved and not yet
\* committed) and about to be loaded by the consumer (Pop/Front); every slot or
\* handle target a step changes once the goroutines run lies outside the slots
\* of the unconsumed elements, and every slot the consumer loads lies inside.
C11_SlotExclusive ==
    /\ [](ProducerSlots \cap ConsumerSlots = {})
    /\ [](ProducerSlots \cap Unconsumed = {})
    /\ [](ConsumerSlots \subseteq Unconsumed)
    /\ [][ /\ \A k \in DOMAIN items :
                items'[k] # items[k] /\ started => k = wIdx /\ k \notin Unconsumed
           /\ \A h \in DOMAIN heap :
                heap'[h] # heap[h] =>
                    filled /\ h = items[wIdx] /\ wIdx \notin Unconsumed
           /\ \/ cpc' = "pop_adv" /\ (PopCall \/ PopRead)
              \/ cpc' = "idle" /\ cOk' /\ (FrontCall \/ FrontRead)
              => cRet' = items[rIdx] /\ rIdx \in Unconsumed
         ]_vars

\* Push is about to store into the last slot, its next write index wrapping to
\* 0, while Pop is about to load the slot before it; both reloaded the index of
\* the other side.
C11_Witness ==
    /\ cap = 2 /\ ppc = "push_write" /\ cpc = "pop_read"
    /\ wIdx = 2 /\ wIdxNext = 0 /\ rIdx = 1

\* C12: progress of the blocking operations.  For capacity >= 1, with the
\* producer Pushing MaxItems values and the consumer Popping MaxItems values
\* under weak fairness of both, both finish with every value handed over; a
\* Push in its wait loop returns, a Pop in its wait loop returns, and a turn of
\* either loop taken when the queue is not full, respectively not empty, leaves
\* the loop.
C12_Progress ==
    /\ cap >= 1 => <>[](/\ ppc = "idle" /\ cpc = "idle"
                        /\ Len(enq) = MaxItems /\ deq = enq)
    /\ (cap >= 1 /\ ppc = "push_spin") ~> (ppc = "idle" /\ pOp = "Push")
    /\ (cap >= 1 /\ cpc = "pop_spin") ~> (cpc = "idle" /\ cOp = "Pop")
    /\ [][ /\ PushSpin /\ Count < cap => ppc' = "push_write"
           /\ PopSpin /\ Count > 0 => cpc' = "pop_read"
         ]_vars

\* Push waits on a full queue of capacity 1 while Pop is about to remove the
\* element whose slot the producer waits for.
C12_Witness ==
    /\ cap = 1 /\ ppc = "push_spin" /\ Count = cap
    /\ cpc = "pop_adv" /\ nDeq = 1

\* The largest number of steps the producer, the consumer and the Len caller
\* have left in a call to Offer or Reserve, to Front, to Len.
PRank ==
    CASE ppc = "offer_write" -> 2
      [] ppc \in {"offer_store", "reserve_read"} -> 1
      [] OTHER -> 0
CRank == IF cpc = "front_read" THEN 1 ELSE 0
LRank == IF lpc = "len_w" THEN 1 ELSE 0

\* C13: only Push and Pop can wait.  A call to Offer, Reserve, Commit, Front,
\* Advance or Len can begin and can take its next step in every reachable state,
\* whatever the other goroutines are doing; its first step leaves at most two
\* steps (Offer), one step (Reserve, Front, Len) or none (Commit, Advance), and
\* every later step leaves one fewer (a step that does otherwise is none of
\* theirs): Offer is over in three steps of the caller, Reserve, Front and Len
\* in two, Commit and Advance in one.
C13_NonBlocking ==
    /\ [](/\ ppc = "offer_write" => ENABLED OfferWrite
          /\ ppc = "offer_store" => ENABLED OfferStore
          /\ ppc = "reserve_read" => ENABLED ReserveRead
          /\ cpc = "front_read" => ENABLED FrontRead
          /\ lpc = "idle" => ENABLED LenLoadR
          /\ lpc = "len_w" => ENABLED LenLoadW
          /\ ppc = "idle" /\ Len(enq) < MaxItems =>
                /\ ENABLED ReserveCall
                /\ ~filled => ENABLED OfferCall
                /\ reserved /\ (filled => written # 0) => ENABLED Commit
          /\ cpc = "idle" =>
                /\ (cDeref => canAdvance) => ENABLED FrontCall
                /\ canAdvance => ENABLED Advance)
    /\ [][ /\ ppc' \notin {"idle", "offer_write", "offer_store"} => ~OfferCall
           /\ ppc' \notin {"idle", "reserve_read"} => ~ReserveCall
           /\ PRank > 0 /\ PRank' # PRank - 1 =>
                ~(OfferWrite \/ OfferStore \/ ReserveRead)
           /\ PRank = 0 => ~(OfferWrite \/ OfferStore \/ ReserveRead)
           /\ ppc' # "idle" => ~Commit
           /\ cpc' \notin {"idle", "front_read"} => ~FrontCall
           /\ CRank = 1 /\ cpc' # "idle" => ~FrontRead
           /\ CRank = 0 => ~FrontRead
           /\ cpc' # "idle" => ~Advance
           /\ lpc = "idle" /\ LRank' # 1 => ~LenLoadR
           /\ lpc = "len_w" /\ lpc' # "len_ret" => ~LenLoadW
         ]_vars

\* Offer, having reloaded the read index, is two steps from returning while Pop
\* waits on the empty queue and Len is between its loads.
C13_Witness ==
    /\ cap = 1 /\ ppc = "offer_write" /\ cpc = "pop_spin" /\ lpc = "len_w"
    /\ Count = 0 /\ nDeq = 1

\* C14: occupancy invariant, no overwrite.  In every reachable state the distance
\* from the read index to the write index modulo capacity+1 is the number of
\* elements enqueued and not yet dequeued, which is in 0 .. capacity; the queue
\* is empty exactly when the indices are equal and full exactly when the write
\* index plus one modulo capacity+1 is the read index; no step publishes an
\* element while the queue holds capacity elements and no step removes one from
\* an empty queue.
C14_Occupancy ==
    /\ [](/\ (wIdx + (cap + 1) - rIdx) % (cap + 1) = Count
          /\ Count \in 0 .. cap
          /\ Count = 0 <=> rIdx = wIdx
          /\ Count = cap <=> (wIdx + 1) % (cap + 1) = rIdx)
    /\ [][ /\ PushStore \/ OfferStore \/ Commit => Count < cap /\ Count' = Count + 1
           /\ PopAdvance \/ Advance => Count > 0 /\ Count' = Count - 1
           /\ Len(enq') # Len(enq) => PushStore \/ OfferStore \/ Commit
           /\ nDeq' # nDeq => PopAdvance \/ Advance
         ]_vars

\* A full queue of capacity 2 whose write index wrapped behind the read index.
C14_Witness ==
    /\ cap = 2 /\ Count = cap /\ wIdx = 0 /\ rIdx = 1
    /\ ppc = "idle" /\ cpc = "idle"

\* C15: result accuracy of the non-blocking checks.  Offer and Reserve return
\* false only in a step that loads the read index while the queue holds capacity
\* elements, and a call made while it holds fewer goes on to return true (no
\* step of theirs taken then does anything else); Front returns the zero value
\* and false only in a step that loads the write index while the queue is
\* empty, and a call made while it is not empty goes on to return the oldest
\* element and true.  No success happens on a full, respectively empty, queue.
C15_ResultAccuracy ==
    [][ /\ ppc' = "idle" /\ ~pOk' /\ (OfferCall \/ ReserveCall) =>
            /\ Count = cap
            /\ rIdxCached' = rIdx
        /\ /\ Count < cap
           /\ ~ \/ ppc' \in {"offer_write", "offer_store", "reserve_read"}
                \/ ppc' = "idle" /\ pOk'
           => ~(OfferCall \/ ReserveCall)
        /\ ppc = "offer_write" /\ ppc' # "offer_store" => ~OfferWrite
        /\ ppc \in {"offer_store", "reserve_read"}
                /\ ~(ppc' = "idle" /\ pOk' /\ Count < cap)
           => ~(OfferStore \/ ReserveRead)
        /\ Count = cap /\ ppc' = "idle" /\ pOk' => ~ReserveCall
        /\ cpc' = "idle" /\ ~cOk' /\ FrontCall =>
            /\ Count = 0
            /\ wIdxCached' = wIdx
            /\ cRet' = 0
        /\ /\ Count > 0
           /\ ~ \/ cpc' = "front_read"
                \/ cpc' = "idle" /\ cOk'
           => ~FrontCall
        /\ /\ cpc' = "idle" /\ cOk'
           /\ ~ /\ Count > 0
                /\ cRet' = items[rIdx]
                /\ Val(cRet') = enq[nDeq + 1]
           => ~(FrontCall \/ FrontRead)
        /\ cpc = "front_read" /\ ~(cpc' = "idle" /\ cOk') => ~FrontRead
      ]_vars

\* Reserve and Front both found their cached index insufficient, reloaded it and
\* go on to succeed.
C15_Witness ==
    /\ cap = 2 /\ ppc = "reserve_read" /\ cpc = "front_read"
    /\ Count = 1 /\ wIdxNext = 0

\* C16: single-writer index ownership.  The read index changes only in the
\* publishing step of Pop and in Advance, the write index only in the publishing
\* step of Push, of a successful Offer and in Commit; the producer's cached read
\* index changes only in steps of Push, Offer and Reserve, the consumer's cached
\* write index only in steps of Pop and Front; no step of Len, Front, Reserve
\* or of a failing Offer changes the read index or the write index.
C16_IndexOwnership ==
    [][ /\ rIdx' # rIdx => PopAdvance \/ Advance
        /\ wIdx' # wIdx => PushStore \/ OfferStore \/ Commit
        /\ rIdxCached' # rIdxCached =>
            PushCall \/ PushSpin \/ OfferCall \/ ReserveCall
        /\ wIdxCached' # wIdxCached => PopCall \/ PopSpin \/ FrontCall
        /\ rIdx' # rIdx \/ wIdx' # wIdx =>
            ~ \/ LenLoadR \/ LenLoadW \/ LenReturn
              \/ FrontCall \/ FrontRead
              \/ ReserveCall \/ ReserveRead
              \/ OfferCall /\ ppc' = "idle"
        /\ rIdx' # rIdx \/ wIdxCached' # wIdxCached =>
            ~(Producer \/ LenCaller \/ Fill)
        /\ wIdx' # wIdx \/ rIdxCached' # rIdxCached =>
            ~(Consumer \/ LenCaller \/ Fill)
      ]_vars

\* All four indices have moved, the write index having wrapped; the last Offer
\* failed on the full queue, the last Front succeeded and Len returned.
C16_Witness ==
    /\ cap = 1 /\ rIdx = 1 /\ wIdx = 0 /\ rIdxCached = 1 /\ wIdxCached = 0
    /\ ppc = "idle" /\ pOp = "Offer" /\ ~pOk
    /\ cpc = "idle" /\ cOp = "Front" /\ cOk
    /\ lpc = "len_ret" /\ lRet = cap

\* C17: index range.  In every reachable state the read index, the write index
\* and both cached indices are in 0 .. capacity, the positions of the capacity+1
\* slots, as are the producer's next write index and the slot of its last
\* Reserve; every change of the read or the write index is by one, from
\* capacity to 0; so every slot access (at the read or the write index) is
\* within the slots.
C17_IndexRange ==
    /\ [](/\ DOMAIN items = 0 .. cap
          /\ rIdx \in 0 .. cap /\ wIdx \in 0 .. cap
          /\ rIdxCached \in 0 .. cap /\ wIdxCached \in 0 .. cap
          /\ wIdxNext \in 0 .. cap /\ pSlot \in 0 .. cap /\ lrIdx \in 0 .. cap)
    /\ [][ /\ PushStore \/ OfferStore \/ Commit =>
                wIdx' = (IF wIdx = cap THEN 0 ELSE wIdx + 1)
           /\ PopAdvance \/ Advance =>
                rIdx' = (IF rIdx = cap THEN 0 ELSE rIdx + 1)
           /\ wIdx' # wIdx => wIdx' = (wIdx + 1) % (cap + 1)
           /\ rIdx' # rIdx => rIdx' = (rIdx + 1) % (cap + 1)
           /\ rIdxCached' # rIdxCached => rIdxCached' = rIdx
           /\ wIdxCached' # wIdxCached => wIdxCached' = wIdx
         ]_vars

\* Both indices of a queue of capacity 2 went from 2 to 0, and the consumer's
\* cached write index followed.
C17_Witness ==
    /\ cap = 2 /\ nDeq = MaxItems /\ rIdx = 0 /\ wIdx = 0 /\ wIdxCached = 0
    /\ rIdxCached # 0

\* C18: cache refresh only when needed.  The producer's cached read index is
\* reloaded only by a step of Push, Offer or Reserve taken while the next write
\* index equals it, and the consumer's cached write index only by a step of Pop
\* or Front taken while the read index equals it; a wait loop runs only in that
\* condition.  A call that finds slack in its cached index leaves the cached
\* index as it is, stale or not: Push and Offer store the element into the slot
\* at the write index and go on to the one index store, Reserve returns that
\* slot, Pop and Front load the slot at the read index; and there is room,
\* respectively an element, in the queue.
C18_RefreshWhenNeeded ==
    /\ [](/\ ppc = "push_spin" => RanIntoConsumer(wIdxNext, rIdxCached)
          /\ cpc = "pop_spin" => NoneAvailable(rIdx, wIdxCached))
    /\ [][ /\ rIdxCached' # rIdxCached =>
                RanIntoConsumer((wIdx + 1) % (cap + 1), rIdxCached)
           /\ wIdxCached' # wIdxCached => rIdx = wIdxCached
           /\ ppc = "idle" /\ (wIdx + 1) % (cap + 1) # rIdxCached
                /\ (PushCall \/ OfferCall \/ ReserveCall) =>
                /\ rIdxCached' = rIdxCached
                /\ Count < cap
                /\ PushCall => ppc' = "push_store" /\ items'[wIdx] = el'
                /\ OfferCall => ppc' = "offer_store" /\ items'[wIdx] = el'
                /\ ReserveCall => ppc' = "idle" /\ pOk' /\ pSlot' = wIdx
           /\ rIdxCached' # rIdxCached =>
                ~ \/ PushWrite \/ PushStore \/ OfferWrite \/ OfferStore
                  \/ ReserveRead \/ Commit
           /\ cpc = "idle" /\ rIdx # wIdxCached /\ (PopCall \/ FrontCall) =>
                /\ wIdxCached' = wIdxCached
                /\ Count > 0
                /\ cRet' = items[rIdx] /\ Val(cRet') = enq[nDeq + 1]
                /\ PopCall => cpc' = "pop_adv"
                /\ FrontCall => cpc' = "idle" /\ cOk'
           /\ wIdxCached' # wIdxCached =>
                ~(PopRead \/ PopAdvance \/ FrontRead \/ Advance)
         ]_vars

\* Push stored its second element into the slot without a load since the queue
\* was built, and is about to store the write index, while its cached read
\* index is behind the read index.
C18_Witness ==
    /\ cap = 2 /\ ppc = "push_store" /\ Len(enq) = 1 /\ items[wIdx] = el
    /\ rIdxCached = 0 /\ rIdx = 1 /\ wIdxNext # rIdxCached

\* C19: storage frame.  The slots change only in Fill and in the slot store of
\* Push and Offer, which changes no slot but the one at the write index; no step
\* of Reserve, Commit, Pop, Front, Advance or Len, no failing Offer and no index
\* store changes a slot, so a consumed slot keeps its element; and once Fill has
\* run, the producer enqueuing through Reserve and Commit, every slot holds the
\* handle Fill put there.
C19_StorageFrame ==
    /\ [](filled => items = [i \in 0 .. cap |-> i + 1])
    /\ [][ /\ items' # items =>
                Fill \/ PushCall \/ PushWrite \/ OfferCall \/ OfferWrite
           /\ items' # items /\ ~Fill =>
                \A k \in DOMAIN items : k # wIdx => items'[k] = items[k]
           /\ items' # items =>
                ~ \/ ReserveCall \/ ReserveRead \/ WriteReserved \/ Commit
                  \/ PopCall \/ PopSpin \/ PopRead \/ PopAdvance
                  \/ FrontCall \/ FrontRead \/ Advance \/ Deref
                  \/ LenLoadR \/ LenLoadW \/ LenReturn
                  \/ OfferCall /\ ppc' = "idle"
                  \/ PushSpin \/ PushStore \/ OfferStore
           /\ nDeq' # nDeq => items'[rIdx] = cRet
         ]_vars

\* After Fill, MaxItems values went through the handles by Reserve and Commit and
\* were all removed; the handles are where Fill put them, the first one reused.
C19_Witness ==
    /\ filled /\ cap = 1 /\ nDeq = MaxItems /\ Len(deq) = MaxItems
    /\ items = [i \in 0 .. cap |-> i + 1]
    /\ heap[1] = MaxItems /\ heap[2] = MaxItems - 1

\* The slot before the read index: the slot of the element removed last.
GraceSlot == (rIdx + cap) % (cap + 1)

\* C20: grace slot after consumption.  Once an element has been removed, the
\* slot it was in (the slot before the read index) is not in the producer's
\* hands until the read index moves again: Push and Offer do not store into it,
\* no successful Reserve holds it, and no step changes it or the int behind its
\* handle.  So the handle Pop returned, or Front returned before Advance, is the
\* one in that slot and still points at the value enqueued with it when the
\* consumer dereferences it before its next Pop or Advance.
C20_GraceSlot ==
    /\ [](nDeq >= 1 => GraceSlot \notin ProducerSlots)
    /\ [](cDeref /\ ~canAdvance =>
            /\ nDeq >= 1
            /\ cRet = items[GraceSlot]
            /\ heap[cRet] = enq[nDeq])
    /\ [][ /\ nDeq >= 1 =>
                /\ items'[GraceSlot] = items[GraceSlot]
                /\ filled => heap'[items[GraceSlot]] = heap[items[GraceSlot]]
           /\ (ReserveCall \/ ReserveRead) /\ ppc' = "idle" /\ pOk' /\ nDeq >= 1 =>
                pSlot' # GraceSlot
           /\ Deref => deq' = Append(deq, enq[Len(deq) + 1])
         ]_vars

\* The consumer holds the handle Pop returned and has not dereferenced it; the
\* queue of capacity 1 is full again, so the only free slot is the one of that
\* handle, and the producer's Reserve failed.
C20_Witness ==
    /\ filled /\ cap = 1 /\ Count = cap
    /\ cDeref /\ ~canAdvance /\ cOp = "Pop" /\ cpc = "idle"
    /\ ppc = "idle" /\ pOp = "Reserve" /\ ~pOk /\ wIdx = GraceSlot

\* The index d advances before idx.
Back(idx, d) == (idx + d * (cap + 1) - d) % (cap + 1)

\* C21: conservative caches.  In every reachable state the producer's cached
\* read index is the read index of d removals ago, for some d from 0 to the
\* number of removals, and the occupancy computed from it and the write index is
\* the true occupancy plus d, at most the capacity; the consumer's cached write
\* index is the write index of e publications ago, and the availability
\* computed from it and the read index is the true number of unread elements
\* minus e, at least 0.  A cached index only ever takes the present value of the
\* index it copies.
C21_ConservativeCaches ==
    /\ [](\E d \in 0 .. nDeq :
            /\ rIdxCached = Back(rIdx, d)
            /\ LenOp(rIdxCached, wIdx) = Count + d
            /\ Count + d <= cap)
    /\ [](\E e \in 0 .. Len(enq) :
            /\ wIdxCached = Back(wIdx, e)
            /\ LenOp(rIdx, wIdxCached) = Count - e
            /\ Count - e >= 0)
    /\ [][ /\ rIdxCached' # rIdxCached =>
                rIdxCached' = rIdx /\ LenOp(rIdxCached', wIdx') = Count'
           /\ wIdxCached' # wIdxCached =>
                wIdxCached' = wIdx /\ LenOp(rIdx', wIdxCached') = Count'
         ]_vars

\* Both cached indices are one behind: the queue of capacity 2 holds one element,
\* the producer's cache shows it full and the consumer's cache shows it empty.
C21_Witness ==
    /\ cap = 2 /\ Count = 1 /\ ppc = "idle" /\ cpc = "idle"
    /\ rIdxCached # rIdx /\ LenOp(rIdxCached, wIdx) = cap
    /\ wIdxCached # wIdx /\ LenOp(rIdx, wIdxCached) = 0

\* C22: no mutual wait.  For capacity >= 1, whenever the producer is in the wait
\* loop of Push and the consumer in the wait loop of Pop, the loop conditions do
\* not both hold on the indices as they are: the next turn of at least one of
\* the two loops, reloading the other side's index, leaves its loop.
C22_NoMutualWait ==
    cap >= 1 /\ ppc = "push_spin" /\ cpc = "pop_spin" =>
        /\ ~(RanIntoConsumer(wIdxNext, rIdx) /\ NoneAvailable(rIdx, wIdx))
        /\ \/ ENABLED (PushSpin /\ ppc' = "push_write")
           \/ ENABLED (PopSpin /\ cpc' = "pop_read")

\* Push and Pop are both in their wait loops on a queue of capacity 1: Push
\* found it full, the consumer then removed the element and Pop found it empty.
C22_Witness ==
    /\ cap = 1 /\ ppc = "push_spin" /\ cpc = "pop_spin"
    /\ Count = 0 /\ nDeq = 1 /\ rIdxCached # rIdx

====
